---- MODULE Spec2Model ----
(***************************************************************************)
(* Model of the request execution pipeline of cumi (client.go, utils.go,   *)
(* request.go, response.go): a client is configured through its setters,   *)
(* a request is configured through its setters, and Client.execute drives  *)
(* the retry loop: prepare, before-hooks, transport call, body read,       *)
(* after-hooks, classification and auto-decode, retry decision, error hook *)
(* and return (specification Spec).  The functions the pipeline is built   *)
(* from are exercised on their own inputs by further specifications:       *)
(* classification and decoding of one response (SpecDecode), header and   *)
(* body assembly of prepareRequest (SpecPrepare), a request and its clone  *)
(* on the wire (SpecRequestClone), buildURL (SpecPathParams,               *)
(* SpecQueryParams, SpecBaseURL), the timeouts (SpecTimeout), the pipeline *)
(* with hooks that change the request (SpecHook), Clone (SpecClone) and    *)
(* concurrent Execute calls on one client (SpecConc).                      *)
(***************************************************************************)
EXTENDS Integers, Sequences, FiniteSets, TLC

\* ---------------------------------------------------------------- bounds
\* largest retry count handed to SetRetryCount
MaxRetryCount == 1
\* largest number of hooks registered in each middleware chain
MaxHooks == 2
\* largest number of fragments a response Content-Type value is made of
MaxTokens == 2
\* largest number of values a request holds for one query key
MaxValues == 2
\* largest number of setter calls made on a client or request and its clone
MaxCalls == 3
\* largest number of goroutines calling on one Client at once
MaxGoroutines == 2

\* ------------------------------------------------------ input domains
\* HTTP statuses a server can answer with: 2xx, 3xx, 4xx, 429, 5xx
Statuses == {200, 302, 404, 429, 500}
\* response bodies: no bytes; a well-formed payload that carries every field
\* of the target; a well-formed payload that carries some of the fields; a
\* payload that is decoded in part and then rejected (a JSON value of the
\* wrong type for its field, XML malformed after its first element); a
\* payload rejected before anything is decoded (malformed JSON)
Bodies == {"empty", "good", "partial", "torn", "bad"}
\* integers handed to SetRetryCount, which accepts any int: a negative one,
\* zero and the positive ones up to the bound
RetryCounts == -1..MaxRetryCount
\* values SetRetryCondition can be given: nil, or a predicate, whose answer
\* is free at every consultation
RetryConditions == {"nil", "custom"}
\* values OnError can be given: nil, a hook that only observes, a hook that
\* clears the Err field of the Response it is handed
ErrorHooks == {"nil", "observe", "clearErr"}

\* statuses handed to the classifier on its own: the ends of every class
ProbeStatuses == {100, 101, 199, 200, 204, 299, 300, 302, 399, 400, 404, 429,
                  499, 500, 599}
\* fragments of a Content-Type value, and the values made of them
MediaTokens == {"application/json", "application/xml", "text/xml",
                "text/plain", "; charset=utf-8"}
ContentTypes == UNION {[1..n -> MediaTokens] : n \in 0..MaxTokens}

\* header keys set through the header setters, in canonical form, and the
\* values they are set to; a header value may be the empty string
HeaderKeys == {"Content-Type", "User-Agent"}
HeaderValues(k) ==
    IF k = "Content-Type" THEN {"text/plain", ""} ELSE {"HeaderAgent/1.0"}
\* header keys handed to Request.SetHeaderVerbatim, not in canonical form,
\* and the values they are set to
VerbatimKeys == {"content-type", "user-agent"}
VerbatimValues(k) ==
    IF k = "content-type" THEN {"text/html"} ELSE {"VerbatimAgent/1.0"}
\* user agents handed to Config.UserAgent, Client.SetUserAgent and
\* Request.SetUserAgent
ConfigUserAgents == {"", "ConfigAgent/1.0", "Go-http-client/1.1"}
ClientUserAgents == {"", "ClientAgent/1.0"}
RequestUserAgents == {"", "RequestAgent/1.0"}
\* request bodies: none, raw data ([]byte, string, io.Reader), any other value
BodyKinds == {"nil", "raw", "value"}

\* base URLs a Config carries: none, or an absolute one
BaseURLs == {<<>>, <<"h", "t", "t", "p", ":", "/", "/", "h">>}
\* request URLs: templates with one and with two placeholders, and a URL
\* that has a query string of its own
RawURLs ==
    {<<"/", "{", "a", "}">>,
     <<"/", "{", "a", "}", "/", "{", "b", "}">>,
     <<"/", "x", "?", "a", "=", "0", "&", "b", "=", "5", "&", "a", "=", "6">>}
\* base URLs handed to a Config and to SetBaseURL: none, and an absolute one
\* without, with one and with two trailing slashes
GivenBaseURLs ==
    {<<>>, <<"h", "t", "t", "p", ":", "/", "/", "h">>,
     <<"h", "t", "t", "p", ":", "/", "/", "h", "/">>,
     <<"h", "t", "t", "p", ":", "/", "/", "h", "/", "/">>}
\* request URLs joined to a base URL: relative ones with no, one and two
\* leading slashes, and absolute ones
JoinedURLs ==
    RawURLs \cup
    {<<"x">>, <<"/", "/", "x">>, <<"h", "t", "t", "p", ":", "/", "/", "b", "/", "x">>,
     <<"h", "t", "t", "p", ":", "/", "/", "b">>}
\* timeouts, in seconds, handed to a Config and to SetTimeout; 0 is no
\* timeout for an http.Client
Durations == {0, 1, 5, 10, 30, 60, 90, 120}
\* path-parameter keys and values; a value may hold placeholder text
PathKeys == {<<"a">>, <<"b">>}
PathValues == {<<"1">>, <<"2">>, <<"{", "a", "}">>, <<"{", "b", "}">>}
\* query keys, the values the client sets and the values a request sets
QueryKeys == {<<"a">>, <<"b">>}
ClientQueryValues == {<<"1">>}
RequestQueryValues == {<<"2">>, <<"3">>}
\* query strings handed to SetQueryString: the empty one, one key, one key
\* with two values, and one that url.ParseQuery rejects
QueryStrings ==
    {<<>>, <<"b", "=", "3">>, <<"a", "=", "5", "&", "a", "=", "6">>,
     <<"a", "=", "1", ";", "b", "=", "2">>}
\* the characters of the model in byte order
Alphabet == <<"&", "/", "0", "1", "2", "3", "5", "6", ":", ";", "=", "?",
              "a", "b", "f", "h", "p", "t", "x", "{", "}">>

\* the objects Clone is defined on, and the key, values and item (a cookie,
\* a hook) their setters are handed around a Clone
Kinds == {"Client", "Request"}
CloneKeys == {"X"}
CloneValues == {"1", "2"}
CloneItems == {"c"}
\* the http.Header and url.Values fields, and the slice fields of each kind
ValuesFields == {"headers", "queryParams", "formData"}
SliceFields(kind) ==
    IF kind = "Client" THEN {"cookies", "beforeRequest", "afterResponse"}
    ELSE {"cookies"}

\* the goroutines that share a Client, and the statuses their calls are
\* answered with
Goroutines == 1..MaxGoroutines
ConcStatuses == {200, 404}

\* ----------------------------------------------------------- errors
Error(k, i) == [kind |-> k, idx |-> i]
NoErr == Error("nil", 0)

\* lastErr is tested only against nil, and returned only with a nil Response:
\* it is recorded as nil or as the error last assigned to it
LastErrSet == Error("lastErr", 0)
Recorded(e) == IF e = NoErr THEN NoErr ELSE LastErrSet

\* ------------------------------------------------------- Response
\* the zero value of ResultState is SuccessState (iota)
ZeroState == "Success"
\* a nil *Response
NilResp == [nil |-> TRUE, Err |-> NoErr, StatusCode |-> 0, body |-> "empty",
            state |-> ZeroState, attempt |-> 0]
\* &Response{Request: req, Response: httpResp, ...} built by attempt a
NewResponse(a) == [nil |-> FALSE, Err |-> NoErr, StatusCode |-> 0,
                   body |-> "empty", state |-> ZeroState, attempt |-> a]

\* outcomes of httpClient.Do followed by io.ReadAll
Outcomes ==
    {[kind |-> "transportErr", status |-> 0, body |-> "empty"],
     [kind |-> "readErr", status |-> 0, body |-> "empty"]}
    \cup {[kind |-> "ok", status |-> s, body |-> b] : s \in Statuses, b \in Bodies}

VARIABLES
    \* Client
    retryCount, retryCondition, onError, beforeRequest, afterResponse,
    commonErrorResult,
    \* Request
    successResult, errorResult,
    \* locals of Client.execute
    pc, attempt, resp, lastErr, idx, ret,
    \* decode targets: the attempts whose decoded data the target holds
    successData, errorData, commonData,
    \* observation of the call: transport calls, whether the retry predicate
    \* answered true whenever consulted, error-hook calls
    dispatched, allTrue, hookCalls, hookErr, unhooked,
    \* observation of the current attempt
    cur,
    \* SpecDecode: one Response handed to classification and auto-decode
    probe,
    \* SpecPrepare, SpecURL: the Config a Client was built from, the containers
    \* of the Client and of a Request, the *url.URL returned by buildURL, the
    \* *http.Request of prepareRequest
    config, client, request, built, wire,
    \* SpecClone: the memory behind the containers (maps and backing arrays by
    \* address), the original and its clone as records of addresses and slice
    \* headers, the contents each object was last seen with by its own
    \* caller, the setter calls made so far
    heap, objs, seen, calls,
    \* SpecConc: the Client's common error target (whether it is set, what it
    \* holds), and per goroutine the Execute call it makes on the Client
    shared, running

clientVars == <<retryCount, retryCondition, onError, beforeRequest,
                afterResponse, commonErrorResult>>
requestVars == <<successResult, errorResult>>
targetVars == <<successData, errorData, commonData>>
hookVars == <<hookCalls, hookErr, unhooked>>
localVars == <<pc, attempt, resp, lastErr, idx, ret>>
pipelineVars == <<clientVars, requestVars, localVars, targetVars, dispatched,
                  allTrue, hookVars, cur>>
decodeVars == <<probe>>
buildVars == <<config, client, request, built, wire>>
\* the variables Client.execute leaves alone
cloneVars == <<heap, objs, seen, calls>>
concVars == <<shared, running>>
restVars == <<decodeVars, buildVars, cloneVars, concVars>>
vars == <<pipelineVars, restVars>>

\* what one attempt did so far: prepare and hook results, the hooks that ran,
\* how often the retry predicate was consulted and the interval slept
NewAttempt == [prepFailed |-> FALSE, beforeRan |-> 0, beforeFailed |-> 0,
               sent |-> FALSE, failure |-> "none",
               afterRan |-> 0, afterFailed |-> 0,
               classified |-> FALSE, decodeFailed |-> "none",
               consulted |-> 0, slept |-> 0, answer |-> "none"]

\* the Response handed to classification and auto-decode, before it is handed
NoProbe ==
    [StatusCode |-> 0, failed |-> FALSE, contentType |-> <<>>, body |-> "empty",
     successResult |-> FALSE, errorResult |-> FALSE, commonErrorResult |-> FALSE,
     state |-> ZeroState, target |-> "none", codec |-> "none", done |-> FALSE]

\* a returned (Response, error) pair
Return(r, e) == [resp |-> r, err |-> e]
NoReturn == [resp |-> NilResp, err |-> Error("none", 0)]

\* ------------------------------------- containers of Client and Request
\* strings that are taken apart (URLs, path-parameter values) are tuples of
\* characters; header values and user agents are compared as wholes
\* http.Header and url.Values: a function from the keys present to the list
\* of their values; map[string]string: a function from the keys present
EmptyMap == <<>>

\* DefaultConfig()
DefaultConfig ==
    [BaseURL |-> <<>>,
     Timeout |-> 30,
     Headers |-> [k \in {"Content-Type"} |-> "application/json"],
     QueryParams |-> EmptyMap,
     PathParams |-> EmptyMap,
     UserAgent |-> "Go-http-client/1.1"]

\* NewClientWithConfig: the maps of the Config are copied with Set, an empty
\* UserAgent becomes the default one, the base URL is stored as given; the
\* http.Client is given the Timeout of the Config, the timeout field the
\* Timeout or, for a zero one, 30 seconds; cloned tells a clone from the
\* client made by the constructor
NewClientWithConfig(cfg) ==
    [baseURL |-> cfg.BaseURL,
     headers |-> [k \in DOMAIN cfg.Headers |-> <<cfg.Headers[k]>>],
     queryParams |-> [k \in DOMAIN cfg.QueryParams |-> <<cfg.QueryParams[k]>>],
     pathParams |-> cfg.PathParams,
     formData |-> EmptyMap,
     userAgent |-> IF cfg.UserAgent = "" THEN "Go-http-client/1.1"
                   ELSE cfg.UserAgent,
     timeout |-> IF cfg.Timeout = 0 THEN 30 ELSE cfg.Timeout,
     httpClientTimeout |-> cfg.Timeout,
     cloned |-> FALSE]

\* NewClient()
NewClient == NewClientWithConfig(DefaultConfig)

\* Client.Http(): a Request with empty containers, no body, no user agent;
\* bodySetter records the kind of the body setter called last
Http ==
    [url |-> <<>>, headers |-> EmptyMap, queryParams |-> EmptyMap,
     pathParams |-> EmptyMap, formData |-> EmptyMap,
     body |-> "nil", bodyType |-> "", userAgent |-> "", bodySetter |-> "none"]

\* http.Header.Get, url.Values.Get: the first value of the key, "" if none
Get(h, k) == IF k \in DOMAIN h /\ Len(h[k]) > 0 THEN h[k][1] ELSE ""

\* http.Header.Set, url.Values.Set: the key holds the one value
Set(h, k, v) == [x \in DOMAIN h \cup {k} |-> IF x = k THEN <<v>> ELSE h[x]]

\* http.Header.Add, url.Values.Add: the value is appended to the key's list
Add(h, k, v) ==
    [x \in DOMAIN h \cup {k} |->
        IF x # k THEN h[x]
        ELSE IF k \in DOMAIN h THEN Append(h[k], v) ELSE <<v>>]

\* for k, values := range src { for _, v := range values { dst.Add(k, v) } }
AddAll(dst, src) ==
    [x \in DOMAIN dst \cup DOMAIN src |->
        (IF x \in DOMAIN dst THEN dst[x] ELSE <<>>)
        \o (IF x \in DOMAIN src THEN src[x] ELSE <<>>)]

\* textproto.CanonicalMIMEHeaderKey, which http.Header.Get, Set and Add apply
\* to the key they are given, on the header keys of the model
CanonicalMIMEHeaderKey(k) ==
    IF k = "content-type" THEN "Content-Type"
    ELSE IF k = "user-agent" THEN "User-Agent"
    ELSE k

\* for k, values := range src { for _, v := range values { dst.Add(k, v) } }
\* on http.Headers, src holding keys as they were stored and the range
\* visiting them in the given order
RECURSIVE AddHeaders(_, _, _)
AddHeaders(dst, src, order) ==
    IF order = <<>> THEN dst
    ELSE LET k == Head(order)
             ck == CanonicalMIMEHeaderKey(k)
             d1 == IF src[k] = <<>> THEN dst
                   ELSE [x \in DOMAIN dst \cup {ck} |->
                            (IF x \in DOMAIN dst THEN dst[x] ELSE <<>>)
                            \o (IF x = ck THEN src[k] ELSE <<>>)]
         IN AddHeaders(d1, src, Tail(order))

\* strings.HasPrefix
HasPrefix(str, prefix) ==
    Len(str) >= Len(prefix) /\ SubSeq(str, 1, Len(prefix)) = prefix

\* strings.TrimLeft(str, cutset) for a cutset of one character
RECURSIVE TrimLeft(_, _)
TrimLeft(str, ch) ==
    IF str # <<>> /\ Head(str) = ch THEN TrimLeft(Tail(str), ch) ELSE str

\* strings.TrimRight(str, cutset) for a cutset of one character
RECURSIVE TrimRight(_, _)
TrimRight(str, ch) ==
    IF str # <<>> /\ str[Len(str)] = ch
    THEN TrimRight(SubSeq(str, 1, Len(str) - 1), ch) ELSE str

\* strings.ReplaceAll for a non-empty old: the non-overlapping instances of
\* old, from the left, are replaced; the replacement is not scanned again
RECURSIVE ReplaceAll(_, _, _)
ReplaceAll(str, old, new) ==
    IF Len(str) < Len(old) THEN str
    ELSE IF SubSeq(str, 1, Len(old)) = old
         THEN new \o ReplaceAll(SubSeq(str, Len(old) + 1, Len(str)), old, new)
    ELSE <<Head(str)>> \o ReplaceAll(Tail(str), old, new)

\* strings.Index for one character: its first position, 0 if there is none
Index(str, ch) ==
    IF \E i \in DOMAIN str : str[i] = ch
    THEN CHOOSE i \in DOMAIN str :
             str[i] = ch /\ \A j \in 1..(i - 1) : str[j] # ch
    ELSE 0

\* strings.Split on one character
RECURSIVE Split(_, _)
Split(str, ch) ==
    LET i == Index(str, ch)
    IN IF i = 0 THEN <<str>>
       ELSE <<SubSeq(str, 1, i - 1)>> \o Split(SubSeq(str, i + 1, Len(str)), ch)

\* the byte order of strings
Rank(ch) == CHOOSE i \in DOMAIN Alphabet : Alphabet[i] = ch
RECURSIVE Less(_, _)
Less(a, b) ==
    IF a = <<>> THEN b # <<>>
    ELSE IF b = <<>> THEN FALSE
    ELSE IF Head(a) = Head(b) THEN Less(Tail(a), Tail(b))
    ELSE Rank(Head(a)) < Rank(Head(b))

RECURSIVE SortedKeys(_)
SortedKeys(keys) ==
    IF keys = {} THEN <<>>
    ELSE LET least == CHOOSE k \in keys : \A x \in keys \ {k} : Less(k, x)
         IN <<least>> \o SortedKeys(keys \ {least})

RECURSIVE PairsOf(_, _)
PairsOf(key, vals) ==
    IF vals = <<>> THEN <<>>
    ELSE <<key \o <<"=">> \o Head(vals)>> \o PairsOf(key, Tail(vals))

RECURSIVE AllPairs(_, _)
AllPairs(values, keys) ==
    IF keys = <<>> THEN <<>>
    ELSE PairsOf(Head(keys), values[Head(keys)]) \o AllPairs(values, Tail(keys))

\* strings.Join
RECURSIVE Join(_, _)
Join(parts, sep) ==
    IF parts = <<>> THEN <<>>
    ELSE IF Len(parts) = 1 THEN Head(parts)
    ELSE Head(parts) \o <<sep>> \o Join(Tail(parts), sep)

\* url.Values.Encode: key=value pairs joined by "&", the keys sorted, the
\* values of a key in their order (no character of the model needs escaping
\* in a query)
Encode(values) == Join(AllPairs(values, SortedKeys(DOMAIN values)), "&")

\* buildURL not called yet
NotBuilt == [done |-> FALSE, err |-> FALSE, head |-> <<>>, RawQuery |-> <<>>,
             order |-> <<>>]

\* prepareRequest not called yet
NoBody == [rule |-> "none", bytes |-> <<>>]
NoClone == [done |-> FALSE, Header |-> EmptyMap, body |-> NoBody]
NotPrepared ==
    [done |-> FALSE, Header |-> EmptyMap, body |-> NoBody, clone |-> NoClone]

\* NewClient() followed by c.Http(): no retries, no hooks, no targets
PipelineInit ==
    /\ retryCount = 0
    /\ retryCondition = "nil"
    /\ onError = "nil"
    /\ beforeRequest = 0
    /\ afterResponse = 0
    /\ commonErrorResult = FALSE
    /\ successResult = FALSE
    /\ errorResult = FALSE
    /\ pc = "idle"
    /\ attempt = 0
    /\ resp = NilResp
    /\ lastErr = NoErr
    /\ idx = 0
    /\ ret = NoReturn
    /\ successData = {}
    /\ errorData = {}
    /\ commonData = {}
    /\ dispatched = 0
    /\ allTrue = TRUE
    /\ hookCalls = 0
    /\ hookErr = NoErr
    /\ unhooked = NoReturn
    /\ cur = NewAttempt

\* no Response is under classification
DecodeIdle == probe = NoProbe

\* NewClient() and c.Http(), no URL built and no request prepared
BuildIdle ==
    /\ config = DefaultConfig
    /\ client = NewClient
    /\ request = Http
    /\ built = NotBuilt
    /\ wire = NotPrepared

\* no object is under Clone
CloneIdle ==
    /\ heap = EmptyMap
    /\ objs = EmptyMap
    /\ seen = EmptyMap
    /\ calls = 0

\* no goroutine calls on the Client
ConcIdle ==
    /\ shared = [set |-> FALSE, value |-> EmptyMap]
    /\ running = EmptyMap

Init == PipelineInit /\ DecodeIdle /\ BuildIdle /\ CloneIdle /\ ConcIdle

\* ------------------------------------------------------- setters
execVars == <<localVars, targetVars, dispatched, allTrue, hookVars, cur,
              restVars>>

SetRetryCount(n) ==
    /\ pc = "idle"
    /\ retryCount' = n
    /\ UNCHANGED <<retryCondition, onError, beforeRequest, afterResponse,
                   commonErrorResult, requestVars, execVars>>

SetRetryCondition(f) ==
    /\ pc = "idle"
    /\ retryCondition' = f
    /\ UNCHANGED <<retryCount, onError, beforeRequest, afterResponse,
                   commonErrorResult, requestVars, execVars>>

OnError(h) ==
    /\ pc = "idle"
    /\ onError' = h
    /\ UNCHANGED <<retryCount, retryCondition, beforeRequest, afterResponse,
                   commonErrorResult, requestVars, execVars>>

OnBeforeRequest ==
    /\ pc = "idle"
    /\ beforeRequest < MaxHooks
    /\ beforeRequest' = beforeRequest + 1
    /\ UNCHANGED <<retryCount, retryCondition, onError, afterResponse,
                   commonErrorResult, requestVars, execVars>>

OnAfterResponse ==
    /\ pc = "idle"
    /\ afterResponse < MaxHooks
    /\ afterResponse' = afterResponse + 1
    /\ UNCHANGED <<retryCount, retryCondition, onError, beforeRequest,
                   commonErrorResult, requestVars, execVars>>

SetCommonErrorResult(v) ==
    /\ pc = "idle"
    /\ commonErrorResult' = v
    /\ UNCHANGED <<retryCount, retryCondition, onError, beforeRequest,
                   afterResponse, requestVars, execVars>>

SetSuccessResult(v) ==
    /\ pc = "idle"
    /\ successResult' = v
    /\ UNCHANGED <<clientVars, errorResult, execVars>>

SetErrorResult(v) ==
    /\ pc = "idle"
    /\ errorResult' = v
    /\ UNCHANGED <<clientVars, successResult, execVars>>

\* ------------------------------------------------ helpers of execute
\* maxAttempts computed one too large
MaxAttemptsOffByOne(rc) == rc + 2

\* maxAttempts := c.retryCount + 1
MaxAttempts(rc) == rc + 1

\* the loop condition: attempt < maxAttempts
LoopGuard(a, max) == a < max

\* the budget half of every retry decision: attempt < maxAttempts-1
CanRetry(a, max) == a < max - 1

\* the default rule without its 429 case
shouldRetryNo429(cond, r, err, answer) ==
    IF cond # "nil" THEN answer
    ELSE IF err # NoErr THEN TRUE
    ELSE IF ~r.nil /\ r.StatusCode >= 500 THEN TRUE
    ELSE FALSE

\* Client.shouldRetry; answer is what a caller-supplied predicate returns
shouldRetry(cond, r, err, answer) ==
    IF cond # "nil" THEN answer
    ELSE IF err # NoErr THEN TRUE
    ELSE IF ~r.nil /\ (r.StatusCode >= 500 \/ r.StatusCode = 429) THEN TRUE
    ELSE FALSE

\* a classifier that takes 400 for an unknown status
defaultResultCheckerAbove400(r) ==
    IF r.StatusCode >= 200 /\ r.StatusCode < 300 THEN "Success"
    ELSE IF r.StatusCode > 400 THEN "Error"
    ELSE "Unknown"

\* defaultResultChecker
defaultResultChecker(r) ==
    IF r.StatusCode >= 200 /\ r.StatusCode < 300 THEN "Success"
    ELSE IF r.StatusCode >= 400 THEN "Error"
    ELSE "Unknown"

\* Client.unmarshalResponse into a target holding old, in attempt a: an empty
\* body decodes nothing; json.Unmarshal and xml.Unmarshal write the fields
\* the body carries into the target as it is and leave the other fields
\* alone, so a payload with every field replaces what the target held and a
\* payload with some of them is merged into it; a payload rejected midway
\* has written the fields before the fault and returns the error; a payload
\* rejected by the syntax check is not written at all
unmarshalResponse(r, old, a) ==
    IF r.body = "empty" THEN [err |-> NoErr, data |-> old]
    ELSE IF r.body = "bad" THEN [err |-> Error("decode", 0), data |-> old]
    ELSE IF r.body = "torn"
    THEN [err |-> Error("decode", 0), data |-> old \cup {a}]
    ELSE IF r.body = "partial" THEN [err |-> NoErr, data |-> old \cup {a}]
    ELSE [err |-> NoErr, data |-> {a}]

\* Response.IsSuccess, Response.IsError
IsSuccess(r) == r.state = "Success"
IsError(r) == r.state = "Error"

\* strings.Contains(contentType, fragment)
Contains(contentType, fragment) ==
    \E i \in DOMAIN contentType : contentType[i] = fragment

\* a codec choice that does not know text/xml
CodecWithoutTextXML(body, contentType) ==
    IF body = "empty" THEN "none"
    ELSE IF Contains(contentType, "application/json") THEN "json"
    ELSE IF Contains(contentType, "application/xml") THEN "xml"
    ELSE "json"

\* the codec Client.unmarshalResponse decodes the body with: none for an
\* empty body, else chosen by the response Content-Type
Codec(body, contentType) ==
    IF body = "empty" THEN "none"
    ELSE IF Contains(contentType, "application/json") THEN "json"
    ELSE IF Contains(contentType, "application/xml")
            \/ Contains(contentType, "text/xml") THEN "xml"
    ELSE "json"

\* the target execute hands to unmarshalResponse: clean is resp.Err == nil,
\* st the state, sr, er and cr whether the request's success target, the
\* request's error target and the client's common error target are set
Target(clean, st, sr, er, cr) ==
    IF ~clean THEN "none"
    ELSE IF st = "Success" /\ sr THEN "success"
    ELSE IF st = "Error" THEN (IF er THEN "error"
                               ELSE IF cr THEN "common" ELSE "none")
    ELSE "none"

\* the condition under which execute calls c.onError
CallsOnError(r, h) == ~r.nil /\ r.Err # NoErr /\ h # "nil"

\* what a registered error hook does to the *Response it is handed
ErrorHookEffect(h, r) == IF h = "clearErr" THEN [r EXCEPT !.Err = NoErr] ELSE r

\* the tail of execute: return nil, lastErr / return resp, resp.Err, which
\* dereferences resp
Panic == Return(NilResp, Error("panic", 0))
ReturnOf(r, le) ==
    IF r.nil /\ le # NoErr THEN Return(NilResp, le)
    ELSE IF r.nil THEN Panic
    ELSE Return(r, r.Err)

\* ------------------------------------------------------- execute
\* Request.Execute -> Client.execute: the locals before the loop
Execute ==
    /\ pc = "idle"
    /\ pc' = "loop"
    /\ attempt' = 0
    /\ resp' = NilResp
    /\ lastErr' = NoErr
    /\ UNCHANGED <<clientVars, requestVars, idx, ret, targetVars, dispatched,
                   allTrue, hookVars, cur, restVars>>

\* the code after the loop, entered with resp = r and lastErr = le: the error
\* hook is called if CallsOnError, then the return statements run
Leave(r, le) ==
    LET call == CallsOnError(r, onError)
        r1 == IF call THEN ErrorHookEffect(onError, r) ELSE r
        out == ReturnOf(r1, le)
    IN /\ unhooked' = ReturnOf(r, le)
       /\ hookCalls' = IF call THEN hookCalls + 1 ELSE hookCalls
       /\ hookErr' = IF call THEN r.Err ELSE hookErr
       /\ resp' = r1
       /\ ret' = out
       /\ pc' = IF out = Panic THEN "panicked" ELSE "done"

\* one retry decision on Response r: attempt < maxAttempts-1 && shouldRetry;
\* the predicate is consulted only when the budget allows another attempt
Decision(r, answer) ==
    LET can == CanRetry(attempt, MaxAttempts(retryCount))
    IN [consulted |-> can,
        again |-> can /\ shouldRetry(retryCondition, r, r.Err, answer)]

\* whether a retry decision taken now calls the caller-supplied predicate:
\* the budget allows another attempt and a RetryCondition is set
Asked == CanRetry(attempt, MaxAttempts(retryCount)) /\ retryCondition # "nil"

\* whether every answer of the caller-supplied predicate was true so far
Answers(d, answer) ==
    IF d.consulted /\ retryCondition = "custom" THEN allTrue /\ answer
    ELSE allTrue

\* the last answer the caller-supplied predicate gave in the attempt, old
\* being the one recorded before this decision
LastAnswer(d, answer, old) ==
    IF d.consulted /\ retryCondition = "custom"
    THEN (IF answer THEN "true" ELSE "false")
    ELSE old

\* the Response after httpClient.Do, the body read and the status copy of
\* attempt a, o being the outcome of the transport and of the read: the status
\* is copied only after the body was read
Received(a, o) ==
    LET r0 == NewResponse(a)
    IN IF o.kind = "transportErr" THEN [r0 EXCEPT !.Err = Error("transport", 0)]
       ELSE IF o.kind = "readErr" THEN [r0 EXCEPT !.Err = Error("read", 0)]
       ELSE [r0 EXCEPT !.body = o.body, !.StatusCode = o.status]

\* a prepareRequest error that is dropped, the attempt moving on to the hooks
PrepareErrorIgnored(err) == [pc |-> "before", ret |-> NoReturn]

\* where execute goes when prepareRequest fails: it returns nil and the error
PrepareError(err) == [pc |-> "done", ret |-> Return(NilResp, err)]

\* loop head and prepareRequest; prepared is whether URL construction and body
\* encoding succeed for this attempt, w the *http.Request prepareRequest then
\* returns. When the loop condition is false the code after the loop runs.
PrepareAs(prepared, w) ==
    /\ pc = "loop"
    /\ IF LoopGuard(attempt, MaxAttempts(retryCount))
       THEN /\ cur' = [NewAttempt EXCEPT !.prepFailed = ~prepared]
            /\ IF prepared
               THEN /\ pc' = "before"
                    /\ idx' = 1
                    /\ ret' = ret
                    /\ wire' = w
               ELSE /\ pc' = PrepareError(Error("prepare", 0)).pc
                    /\ idx' = IF PrepareError(Error("prepare", 0)).pc = "before"
                              THEN 1 ELSE idx
                    /\ ret' = PrepareError(Error("prepare", 0)).ret
                    /\ UNCHANGED wire
            /\ UNCHANGED <<resp, hookVars>>
       ELSE /\ Leave(resp, lastErr)
            /\ UNCHANGED <<cur, idx, wire>>
    /\ UNCHANGED <<clientVars, requestVars, attempt, lastErr, targetVars,
                   dispatched, allTrue, decodeVars, config, client, request,
                   built, cloneVars, concVars>>

\* the attempt head of a call whose wire request is not followed
Prepare(prepared) == PrepareAs(prepared, wire)

\* a before-request hook error that is dropped, the loop moving on
BeforeHookErrorIgnored(i) == [pc |-> "before", ret |-> NoReturn]

\* where execute goes when the before-request hook at position i fails: it
\* returns nil and the wrapped error
BeforeHookError(i) == [pc |-> "done", ret |-> Return(NilResp, Error("before", i))]

\* one iteration of the before-request middleware loop; ok is whether the
\* hook at position idx returns nil, req the Request as the hook leaves it
BeforeHookAs(ok, req) ==
    /\ pc = "before"
    /\ idx <= beforeRequest
    /\ IF ok
       THEN /\ cur' = [cur EXCEPT !.beforeRan = idx]
            /\ idx' = idx + 1
            /\ UNCHANGED <<pc, ret>>
       ELSE /\ cur' = [cur EXCEPT !.beforeRan = idx, !.beforeFailed = idx]
            /\ pc' = BeforeHookError(idx).pc
            /\ ret' = BeforeHookError(idx).ret
            /\ idx' = IF BeforeHookError(idx).pc = "before" THEN idx + 1 ELSE idx
    /\ request' = req
    /\ UNCHANGED <<clientVars, requestVars, attempt, resp, lastErr, targetVars,
                   dispatched, allTrue, hookVars, decodeVars, config, client,
                   built, wire, cloneVars, concVars>>

\* a before-request hook that leaves the Request as it is
BeforeHook(ok) == BeforeHookAs(ok, request)

\* httpClient.Do, the new Response, the body read and the status copy; o is
\* the outcome of the transport and of the read, answer the reply of a
\* caller-supplied retry predicate. A transport or read error goes to the
\* retry decision: sleep and continue, or break to the code after the loop.
Send(o, answer) ==
    /\ pc = "before"
    /\ idx > beforeRequest
    \* the predicate's answer is an input only of a step that calls it
    /\ (o.kind # "ok" /\ Asked) \/ answer
    /\ dispatched' = dispatched + 1
    /\ LET r1 == Received(attempt + 1, o)
           d == Decision(r1, answer)
       IN IF r1.Err # NoErr
          THEN /\ lastErr' = Recorded(r1.Err)
               /\ cur' = [cur EXCEPT !.sent = TRUE, !.failure = r1.Err.kind,
                                     !.consulted = IF d.consulted THEN @ + 1 ELSE @,
                                     !.slept = IF d.again THEN @ + 1 ELSE @,
                                     !.answer = LastAnswer(d, answer, @)]
               /\ allTrue' = Answers(d, answer)
               /\ idx' = idx
               /\ IF d.again
                  THEN /\ attempt' = attempt + 1
                       /\ resp' = r1
                       /\ pc' = "loop"
                       /\ UNCHANGED <<ret, hookVars>>
                  ELSE /\ Leave(r1, Recorded(r1.Err))
                       /\ UNCHANGED attempt
          ELSE /\ resp' = r1
               /\ cur' = [cur EXCEPT !.sent = TRUE]
               /\ pc' = "after"
               /\ idx' = 1
               /\ UNCHANGED <<lastErr, attempt, allTrue, ret, hookVars>>
    /\ UNCHANGED <<clientVars, requestVars, targetVars, restVars>>

\* one iteration of the after-response middleware loop; ok is whether the
\* hook at position idx returns nil, req the Request (resp.Request) as the
\* hook leaves it. The continue and the break of the error branch are
\* statements of this inner loop: continue moves on to the next hook, break
\* leaves the hook loop.
AfterHookAs(ok, answer, req) ==
    /\ pc = "after"
    /\ idx <= afterResponse
    /\ (~ok /\ Asked) \/ answer
    /\ IF ok
       THEN /\ cur' = [cur EXCEPT !.afterRan = idx]
            /\ idx' = idx + 1
            /\ UNCHANGED <<resp, lastErr, allTrue>>
       ELSE LET r1 == [resp EXCEPT !.Err = Error("after", idx)]
                d == Decision(r1, answer)
            IN /\ resp' = r1
               /\ lastErr' = Recorded(r1.Err)
               /\ cur' = [cur EXCEPT !.afterRan = idx,
                                     !.afterFailed = IF @ = 0 THEN idx ELSE @,
                                     !.consulted = IF d.consulted THEN @ + 1 ELSE @,
                                     !.slept = IF d.again THEN @ + 1 ELSE @,
                                     !.answer = LastAnswer(d, answer, @)]
               /\ allTrue' = Answers(d, answer)
               /\ idx' = IF d.again THEN idx + 1 ELSE afterResponse + 1
    /\ request' = req
    /\ UNCHANGED <<clientVars, requestVars, pc, attempt, ret, targetVars,
                   dispatched, hookVars, decodeVars, config, client, built,
                   wire, cloneVars, concVars>>

\* an after-response hook that leaves the Request as it is
AfterHook(ok, answer) == AfterHookAs(ok, answer, request)

\* after the hook loop: classification and auto-decode when resp.Err is nil,
\* then the retry decision of the attempt: sleep and continue, or break to the
\* code after the loop
Decode(answer) ==
    /\ pc = "after"
    /\ idx > afterResponse
    /\ Asked \/ answer
    /\ LET clean == resp.Err = NoErr
           st == IF clean THEN defaultResultChecker(resp) ELSE resp.state
           a == attempt + 1
           t == Target(clean, st, successResult, errorResult, commonErrorResult)
           toSuccess == t = "success"
           toError == t = "error"
           toCommon == t = "common"
           us == unmarshalResponse(resp, successData, a)
           ue == unmarshalResponse(resp, errorData, a)
           uc == unmarshalResponse(resp, commonData, a)
           r1 == [resp EXCEPT !.state = st,
                              !.Err = IF toSuccess /\ us.err # NoErr
                                      THEN us.err ELSE @]
           d == Decision(r1, answer)
       IN /\ successData' = IF toSuccess THEN us.data ELSE successData
          /\ errorData' = IF toError THEN ue.data ELSE errorData
          /\ commonData' = IF toCommon THEN uc.data ELSE commonData
          /\ cur' = [cur EXCEPT !.classified = clean,
                                !.decodeFailed =
                                    IF toSuccess /\ us.err # NoErr THEN "success"
                                    ELSE IF toError /\ ue.err # NoErr THEN "error"
                                    ELSE IF toCommon /\ uc.err # NoErr THEN "error"
                                    ELSE "none",
                                !.consulted = IF d.consulted THEN @ + 1 ELSE @,
                                !.slept = IF d.again THEN @ + 1 ELSE @,
                                !.answer = LastAnswer(d, answer, @)]
          /\ allTrue' = Answers(d, answer)
          /\ IF d.again
             THEN /\ attempt' = attempt + 1
                  /\ resp' = r1
                  /\ pc' = "loop"
                  /\ UNCHANGED <<ret, hookVars>>
             ELSE /\ Leave(r1, lastErr)
                  /\ UNCHANGED attempt
    /\ UNCHANGED <<clientVars, requestVars, lastErr, idx, dispatched, restVars>>

Next ==
    \/ \E n \in RetryCounts : SetRetryCount(n)
    \/ \E f \in RetryConditions : SetRetryCondition(f)
    \/ \E h \in ErrorHooks : OnError(h)
    \/ OnBeforeRequest
    \/ OnAfterResponse
    \/ \E v \in BOOLEAN : SetCommonErrorResult(v)
    \/ \E v \in BOOLEAN : SetSuccessResult(v)
    \/ \E v \in BOOLEAN : SetErrorResult(v)
    \/ Execute
    \/ \E prepared \in BOOLEAN : Prepare(prepared)
    \/ \E ok \in BOOLEAN : BeforeHook(ok)
    \/ \E o \in Outcomes, answer \in BOOLEAN : Send(o, answer)
    \/ \E ok \in BOOLEAN, answer \in BOOLEAN : AfterHook(ok, answer)
    \/ \E answer \in BOOLEAN : Decode(answer)

Spec == Init /\ [][Next]_vars

\* ------------------------------- classification and auto-decode, alone
\* the Responses handed to the step: any status, with or without a terminal
\* error left by the transport, the read or an after-hook, any Content-Type,
\* an empty or a non-empty body, any combination of targets
Probes ==
    {[NoProbe EXCEPT !.StatusCode = s, !.failed = f, !.contentType = ct,
                     !.body = b, !.successResult = sr, !.errorResult = er,
                     !.commonErrorResult = cr] :
        s \in ProbeStatuses, f \in BOOLEAN, ct \in ContentTypes,
        b \in {"empty", "payload"}, sr \in BOOLEAN, er \in BOOLEAN,
        cr \in BOOLEAN}

InitDecode ==
    PipelineInit /\ BuildIdle /\ CloneIdle /\ ConcIdle /\ probe \in Probes

\* if resp.Err == nil { resp.state = c.resultChecker(resp); decode }
ClassifyAndDecode ==
    /\ ~probe.done
    /\ LET clean == ~probe.failed
           st == IF clean THEN defaultResultChecker(probe) ELSE probe.state
           t == Target(clean, st, probe.successResult, probe.errorResult,
                       probe.commonErrorResult)
       IN probe' = [probe EXCEPT !.state = st,
                                 !.target = t,
                                 !.codec = IF t = "none" THEN "none"
                                           ELSE Codec(probe.body, probe.contentType),
                                 !.done = TRUE]
    /\ UNCHANGED <<pipelineVars, buildVars, cloneVars, concVars>>

NextDecode == ClassifyAndDecode

SpecDecode == InitDecode /\ [][NextDecode]_vars

\* ------------------------------------------ prepareRequest: the headers
\* the Configs handed to NewClientWithConfig: with and without the default
\* Content-Type header, with an empty, a custom and the default UserAgent
Configs ==
    {[DefaultConfig EXCEPT !.Headers = h, !.UserAgent = ua] :
        h \in {EmptyMap, DefaultConfig.Headers}, ua \in ConfigUserAgents}

\* the form data SetCommonFormData and SetFormData are handed
ClientFormData == [k \in {<<"f">>} |-> <<"1">>]
RequestFormData == [k \in {<<"f">>} |-> <<"2">>]

\* the body prepareRequest hands to http.NewRequestWithContext: the rule it
\* was made by and, for form data, the encoded bytes. A body that is set is
\* marshalled by its tag, passed through when untagged raw data, and dropped
\* when an untagged value of another type; the form data, the client's
\* values Added before the request's, is encoded only when no body is set.
BodyOf(c, req) ==
    IF req.body # "nil"
    THEN (IF req.bodyType = "json" THEN [rule |-> "json", bytes |-> <<>>]
          ELSE IF req.bodyType = "xml" THEN [rule |-> "xml", bytes |-> <<>>]
          ELSE IF req.body = "raw" THEN [rule |-> "raw", bytes |-> <<>>]
          ELSE NoBody)
    ELSE IF DOMAIN req.formData # {} \/ DOMAIN c.formData # {}
         THEN [rule |-> "form",
               bytes |-> Encode(AddAll(AddAll(EmptyMap, c.formData),
                                       req.formData))]
    ELSE NoBody

\* the content type prepareRequest takes from the body it encodes: that of a
\* JSON- or XML-tagged body, none for an untagged body, that of the form data
\* when there is no body
BodyContentType(c, req) ==
    IF req.body # "nil"
    THEN (IF req.bodyType = "json" THEN "application/json"
          ELSE IF req.bodyType = "xml" THEN "application/xml"
          ELSE "")
    ELSE IF DOMAIN req.formData # {} \/ DOMAIN c.formData # {}
         THEN "application/x-www-form-urlencoded"
    ELSE ""

\* the orders in which a range statement may visit a map with these keys
Orders(keys) ==
    {o \in [1..Cardinality(keys) -> keys] :
        \A i, j \in DOMAIN o : i # j => o[i] # o[j]}

\* every order of every set of keys a request's headers can hold
AllHeaderOrders == UNION {Orders(keys) : keys \in SUBSET (HeaderKeys \cup VerbatimKeys)}

\* whether the order is one a range over the map may take: it visits every
\* key of the map
Visits(order, m) == {order[i] : i \in DOMAIN order} = DOMAIN m

\* the client's headers Added to the new request's, then the request's, the
\* range over req.headers visiting its keys in the given order
MergedHeaders(c, req, order) ==
    AddHeaders(AddAll(EmptyMap, c.headers), req.headers, order)

\* a user agent choice that prefers the client's
UserAgentOfClientFirst(c, req) ==
    IF c.userAgent # "" THEN c.userAgent
    ELSE IF req.userAgent # "" THEN req.userAgent
    ELSE "Go-http-client/1.1"

\* the user agent prepareRequest picks when the headers carry none
UserAgentOf(c, req) ==
    IF req.userAgent # "" THEN req.userAgent
    ELSE IF c.userAgent # "" THEN c.userAgent
    ELSE "Go-http-client/1.1"

\* Client.prepareRequest: the body and the header of the *http.Request it
\* returns, the range over req.headers visiting its keys in the given order
prepareRequest(c, req, order) ==
    LET h0 == MergedHeaders(c, req, order)
        h1 == IF Get(h0, "User-Agent") = ""
              THEN Set(h0, "User-Agent", UserAgentOf(c, req)) ELSE h0
        h2 == IF Get(h1, "Content-Type") = ""
              THEN Set(h1, "Content-Type", BodyContentType(c, req)) ELSE h1
    IN [done |-> TRUE, Header |-> h2, body |-> BodyOf(c, req),
        clone |-> NoClone]

\* a copy of the Request that carries the user agent along
CloneRequestWithUserAgent(req) == req

\* Request.Clone: the containers, the body and its tag are copied, the
\* userAgent field is not
CloneRequest(req) == [req EXCEPT !.userAgent = ""]

InitPrepare ==
    /\ PipelineInit
    /\ DecodeIdle
    /\ CloneIdle
    /\ ConcIdle
    /\ config \in Configs
    /\ client = NewClientWithConfig(config)
    /\ request = Http
    /\ built = NotBuilt
    /\ wire = NotPrepared

\* what the setters of this section leave alone
prepareFrame == <<pipelineVars, decodeVars, cloneVars, concVars, config, built, wire>>

\* Client.SetUserAgent
ClientSetUserAgent(ua) ==
    /\ ~wire.done
    /\ client' = [client EXCEPT !.userAgent = ua]
    /\ UNCHANGED <<prepareFrame, request>>

\* Client.SetCommonHeader
SetCommonHeader(k, v) ==
    /\ ~wire.done
    /\ client' = [client EXCEPT !.headers = Set(@, k, v)]
    /\ UNCHANGED <<prepareFrame, request>>

\* Client.SetCommonFormData
SetCommonFormData(data) ==
    /\ ~wire.done
    /\ client' = [client EXCEPT !.formData =
                      [k \in DOMAIN @ \cup DOMAIN data |->
                          IF k \in DOMAIN data THEN <<data[k]>> ELSE @[k]]]
    /\ UNCHANGED <<prepareFrame, request>>

\* Request.SetUserAgent
RequestSetUserAgent(ua) ==
    /\ ~wire.done
    /\ request' = [request EXCEPT !.userAgent = ua]
    /\ UNCHANGED <<prepareFrame, client>>

\* Request.SetHeader
SetHeader(k, v) ==
    /\ ~wire.done
    /\ request' = [request EXCEPT !.headers =
                       Set(@, CanonicalMIMEHeaderKey(k), v)]
    /\ UNCHANGED <<prepareFrame, client>>

\* Request.SetHeaderVerbatim: r.headers[key] = []string{value}, the key
\* stored as given
SetHeaderVerbatim(k, v) ==
    /\ ~wire.done
    /\ request' = [request EXCEPT !.headers = Set(@, k, v)]
    /\ UNCHANGED <<prepareFrame, client>>

\* Request.SetFormData
SetFormData(data) ==
    /\ ~wire.done
    /\ request' = [request EXCEPT !.formData =
                       [k \in DOMAIN @ \cup DOMAIN data |->
                           IF k \in DOMAIN data THEN <<data[k]>> ELSE @[k]]]
    /\ UNCHANGED <<prepareFrame, client>>

\* Request.SetBody, SetBodyBytes, SetBodyString, SetBodyReader: the body is
\* stored, the tag is left as it is
SetBody(b) ==
    /\ ~wire.done
    /\ request' = [request EXCEPT !.body = b, !.bodySetter = "plain"]
    /\ UNCHANGED <<prepareFrame, client>>

\* Request.SetBodyJSON
SetBodyJSON(b) ==
    /\ ~wire.done
    /\ request' = [request EXCEPT !.body = b, !.bodyType = "json",
                                  !.bodySetter = "json"]
    /\ UNCHANGED <<prepareFrame, client>>

\* Request.SetBodyXML
SetBodyXML(b) ==
    /\ ~wire.done
    /\ request' = [request EXCEPT !.body = b, !.bodyType = "xml",
                                  !.bodySetter = "xml"]
    /\ UNCHANGED <<prepareFrame, client>>

\* the call of prepareRequest by execute
PrepareRequest(order) ==
    /\ ~wire.done
    /\ Visits(order, request.headers)
    /\ wire' = prepareRequest(client, request, order)
    /\ UNCHANGED <<pipelineVars, decodeVars, cloneVars, concVars, config, client, request,
                   built>>

\* r.Clone() sent through the same client after r: prepareRequest on the
\* clone
PrepareClone(order) ==
    /\ wire.done
    /\ ~wire.clone.done
    /\ Visits(order, request.headers)
    /\ LET w == prepareRequest(client, CloneRequest(request), order)
       IN wire' = [wire EXCEPT !.clone = [done |-> TRUE, Header |-> w.Header,
                                          body |-> w.body]]
    /\ UNCHANGED <<pipelineVars, decodeVars, cloneVars, concVars, config, client,
                   request, built>>

NextPrepare ==
    \/ \E ua \in ClientUserAgents : ClientSetUserAgent(ua)
    \/ \E k \in HeaderKeys : \E v \in HeaderValues(k) : SetCommonHeader(k, v)
    \/ SetCommonFormData(ClientFormData)
    \/ \E ua \in RequestUserAgents : RequestSetUserAgent(ua)
    \/ \E k \in HeaderKeys : \E v \in HeaderValues(k) : SetHeader(k, v)
    \/ \E v \in VerbatimValues("content-type") :
          SetHeaderVerbatim("content-type", v)
    \/ SetFormData(RequestFormData)
    \/ \E b \in BodyKinds : SetBody(b)
    \/ \E b \in BodyKinds : SetBodyJSON(b)
    \/ \E b \in BodyKinds : SetBodyXML(b)
    \/ \E order \in AllHeaderOrders : PrepareRequest(order)

SpecPrepare == InitPrepare /\ [][NextPrepare]_vars

\* a Request, with what Clone copies and what it leaves out, sent and then
\* sent again as its clone
NextRequestClone ==
    \/ \E ua \in RequestUserAgents : RequestSetUserAgent(ua)
    \/ \E k \in HeaderKeys : \E v \in HeaderValues(k) : SetHeader(k, v)
    \/ \E k \in VerbatimKeys : \E v \in VerbatimValues(k) : SetHeaderVerbatim(k, v)
    \/ SetFormData(RequestFormData)
    \/ \E b \in BodyKinds : SetBody(b)
    \/ \E b \in BodyKinds : SetBodyJSON(b)
    \/ \E order \in AllHeaderOrders : PrepareRequest(order)
    \/ \E order \in AllHeaderOrders : PrepareClone(order)

SpecRequestClone == InitPrepare /\ [][NextRequestClone]_vars

\* ------------------------------------------------------------- buildURL
\* placeholder := "{" + key + "}"
Placeholder(key) == <<"{">> \o key \o <<"}">>

\* m[k] = v on a map[string]string
Assign(m, k, v) == [x \in DOMAIN m \cup {k} |-> IF x = k THEN v ELSE m[x]]

\* allPathParams: the client's entries, then the request's assigned over them
AllPathParams(c, pathParams) ==
    [k \in DOMAIN c.pathParams \cup DOMAIN pathParams |->
        IF k \in DOMAIN pathParams THEN pathParams[k] ELSE c.pathParams[k]]

\* for key, value := range allPathParams { finalURL = ReplaceAll(...) },
\* the keys visited in the given order
RECURSIVE ReplaceInOrder(_, _, _)
ReplaceInOrder(str, params, order) ==
    IF order = <<>> THEN str
    ELSE ReplaceInOrder(ReplaceAll(str, Placeholder(Head(order)),
                                   params[Head(order)]),
                        params, Tail(order))

\* url.Parse of a URL without fragment: what precedes the first "?" (scheme,
\* host and path) and the raw query after it
ParseURL(str) ==
    LET i == Index(str, "?")
    IN IF i = 0 THEN [head |-> str, RawQuery |-> <<>>]
       ELSE [head |-> SubSeq(str, 1, i - 1),
             RawQuery |-> SubSeq(str, i + 1, Len(str))]

\* the loop of url.ParseQuery: the pairs between the "&" in their order,
\* each split at its first "=", empty pairs skipped, a pair that holds a
\* semicolon left out
RECURSIVE AddPairs(_, _)
AddPairs(values, parts) ==
    IF parts = <<>> THEN values
    ELSE LET part == Head(parts)
             i == Index(part, "=")
             key == IF i = 0 THEN part ELSE SubSeq(part, 1, i - 1)
             value == IF i = 0 THEN <<>> ELSE SubSeq(part, i + 1, Len(part))
         IN AddPairs(IF part = <<>> \/ Index(part, ";") # 0 THEN values
                     ELSE Add(values, key, value),
                     Tail(parts))

\* url.ParseQuery: the values of the pairs it accepts, and whether it
\* returns an error, which it does for a pair that holds a semicolon
ParseQuery(query) ==
    [values |-> AddPairs(EmptyMap, Split(query, "&")),
     err |-> Index(query, ";") # 0]

\* URL.Query: ParseQuery with the error dropped
Query(rawQuery) == ParseQuery(rawQuery).values

\* a merge that adds the request's values before the client's
MergeQueryRequestFirst(own, clientParams, queryParams) ==
    AddAll(AddAll(own, queryParams), clientParams)

\* q := u.Query(), then the client's values Added, then the request's
MergeQuery(own, clientParams, queryParams) ==
    AddAll(AddAll(own, clientParams), queryParams)

\* Client.buildURL; order is the order in which the range over allPathParams
\* visits the keys
buildURL(c, rawURL, pathParams, queryParams, order) ==
    LET joined == IF ~HasPrefix(rawURL, <<"h", "t", "t", "p">>) /\ c.baseURL # <<>>
                  THEN c.baseURL \o <<"/">> \o TrimLeft(rawURL, "/")
                  ELSE rawURL
        finalURL == ReplaceInOrder(joined, AllPathParams(c, pathParams), order)
        u == ParseURL(finalURL)
        q == MergeQuery(Query(u.RawQuery), c.queryParams, queryParams)
    IN [done |-> TRUE, err |-> FALSE, head |-> u.head, RawQuery |-> Encode(q),
        order |-> order]

\* a client built from a Config with or without a base URL, and a request for
\* one of the URLs
InitURL ==
    /\ PipelineInit
    /\ DecodeIdle
    /\ CloneIdle
    /\ ConcIdle
    /\ config \in {[DefaultConfig EXCEPT !.BaseURL = b] : b \in BaseURLs}
    /\ client = NewClientWithConfig(config)
    /\ request \in {[Http EXCEPT !.url = u] : u \in RawURLs}
    /\ built = NotBuilt
    /\ wire = NotPrepared

\* Client.SetCommonPathParam
SetCommonPathParam(k, v) ==
    /\ ~built.done
    /\ client' = [client EXCEPT !.pathParams = Assign(@, k, v)]
    /\ UNCHANGED <<prepareFrame, request>>

\* Request.SetPathParam
SetPathParam(k, v) ==
    /\ ~built.done
    /\ request' = [request EXCEPT !.pathParams = Assign(@, k, v)]
    /\ UNCHANGED <<prepareFrame, client>>

\* Client.SetCommonQueryParam
SetCommonQueryParam(k, v) ==
    /\ ~built.done
    /\ client' = [client EXCEPT !.queryParams = Set(@, k, v)]
    /\ UNCHANGED <<prepareFrame, request>>

\* Request.SetQueryParam
SetQueryParam(k, v) ==
    /\ ~built.done
    /\ request' = [request EXCEPT !.queryParams = Set(@, k, v)]
    /\ UNCHANGED <<prepareFrame, client>>

\* Request.SetQueryString: the parsed query string takes the place of the
\* request's query parameters, and nothing happens when it does not parse
SetQueryString(query) ==
    /\ ~built.done
    /\ request' = [request EXCEPT !.queryParams =
                       IF ParseQuery(query).err THEN @
                       ELSE ParseQuery(query).values]
    /\ UNCHANGED <<prepareFrame, client>>

\* Request.SetQueryParamsFromValues with one value of one key
SetQueryParamsFromValues(k, v) ==
    /\ ~built.done
    /\ k \in DOMAIN request.queryParams => Len(request.queryParams[k]) < MaxValues
    /\ request' = [request EXCEPT !.queryParams = Add(@, k, v)]
    /\ UNCHANGED <<prepareFrame, client>>

\* the keys of allPathParams
Supplied == DOMAIN client.pathParams \cup DOMAIN request.pathParams

\* every order of every set of path-parameter keys
AllOrders == UNION {Orders(keys) : keys \in SUBSET PathKeys}

\* the call of buildURL by prepareRequest, the range over allPathParams
\* visiting its keys in the given order
BuildURL(order) ==
    /\ ~built.done
    /\ order \in Orders(Supplied)
    /\ built' = buildURL(client, request.url, request.pathParams,
                         request.queryParams, order)
    /\ UNCHANGED <<pipelineVars, decodeVars, cloneVars, concVars, config, client, request,
                   wire>>

\* a client built from a Config with any of the base URLs, and a request for
\* one of the URLs
InitBaseURL ==
    /\ PipelineInit
    /\ DecodeIdle
    /\ CloneIdle
    /\ ConcIdle
    /\ config \in {[DefaultConfig EXCEPT !.BaseURL = b] : b \in GivenBaseURLs}
    /\ client = NewClientWithConfig(config)
    /\ request \in {[Http EXCEPT !.url = u] : u \in JoinedURLs}
    /\ built = NotBuilt
    /\ wire = NotPrepared

\* Client.SetBaseURL
SetBaseURL(baseURL) ==
    /\ ~built.done
    /\ client' = [client EXCEPT !.baseURL = TrimRight(baseURL, "/")]
    /\ UNCHANGED <<prepareFrame, request>>

NextBaseURL ==
    \/ \E b \in GivenBaseURLs : SetBaseURL(b)
    \/ \E order \in AllOrders : BuildURL(order)

SpecBaseURL == InitBaseURL /\ [][NextBaseURL]_vars

\* ------------------------- execute: the wire request and the hooks
\* values a hook sets a header of the Request to
HookValues(k) == IF k = "Content-Type" THEN {"text/plain"} ELSE {"HeaderAgent/1.0"}

\* the head of the attempt loop: httpReq, err := c.prepareRequest(req) builds
\* the wire request of the attempt from the Request as it is now
PrepareWire(prepared, order) ==
    /\ Visits(order, request.headers)
    /\ PrepareAs(prepared, prepareRequest(client, request, order))

\* one before-request hook, middleware(c, req), that sets header k of the
\* Request it is handed and returns nil
HookSetsHeader(k, v) ==
    BeforeHookAs(TRUE, [request EXCEPT !.headers =
                                  Set(@, CanonicalMIMEHeaderKey(k), v)])

\* one after-response hook, middleware(c, resp), that sets header k of
\* resp.Request and returns nil
AfterHookSetsHeader(k, v) ==
    AfterHookAs(TRUE, TRUE, [request EXCEPT !.headers =
                                       Set(@, CanonicalMIMEHeaderKey(k), v)])

NextHook ==
    \/ \E n \in RetryCounts : SetRetryCount(n)
    \/ OnBeforeRequest
    \/ OnAfterResponse
    \/ Execute
    \/ \E prepared \in BOOLEAN, order \in AllHeaderOrders :
          PrepareWire(prepared, order)
    \/ \E ok \in BOOLEAN : BeforeHook(ok)
    \/ \E k \in HeaderKeys : \E v \in HookValues(k) : HookSetsHeader(k, v)
    \/ \E o \in Outcomes, answer \in BOOLEAN : Send(o, answer)
    \/ \E ok \in BOOLEAN, answer \in BOOLEAN : AfterHook(ok, answer)
    \/ \E k \in HeaderKeys : \E v \in HookValues(k) : AfterHookSetsHeader(k, v)
    \/ \E answer \in BOOLEAN : Decode(answer)

SpecHook == Init /\ [][NextHook]_vars

\* a client built from a Config with any of the timeouts
InitTimeout ==
    /\ PipelineInit
    /\ DecodeIdle
    /\ CloneIdle
    /\ ConcIdle
    /\ config \in {[DefaultConfig EXCEPT !.Timeout = d] : d \in Durations}
    /\ client = NewClientWithConfig(config)
    /\ request = Http
    /\ built = NotBuilt
    /\ wire = NotPrepared

\* Client.SetTimeout
SetTimeout(timeout) ==
    /\ client' = [client EXCEPT !.timeout = timeout,
                                !.httpClientTimeout = timeout]
    /\ UNCHANGED <<prepareFrame, request>>

\* Client.Clone: the clone's http.Client is given c.httpClient.Timeout, its
\* timeout field c.timeout
CloneOfClient(c) ==
    [c EXCEPT !.timeout = c.timeout,
              !.httpClientTimeout = c.httpClientTimeout,
              !.cloned = TRUE]

\* c = c.Clone(): the caller goes on with the clone
CloneClient ==
    /\ ~client.cloned
    /\ client' = CloneOfClient(client)
    /\ UNCHANGED <<prepareFrame, request>>

NextTimeout ==
    \/ \E d \in Durations : SetTimeout(d)
    \/ CloneClient

SpecTimeout == InitTimeout /\ [][NextTimeout]_vars

NextPathParams ==
    \/ \E k \in PathKeys, v \in PathValues : SetCommonPathParam(k, v)
    \/ \E k \in PathKeys, v \in PathValues : SetPathParam(k, v)
    \/ \E order \in AllOrders : BuildURL(order)

SpecPathParams == InitURL /\ [][NextPathParams]_vars

NextQueryParams ==
    \/ \E k \in QueryKeys, v \in ClientQueryValues : SetCommonQueryParam(k, v)
    \/ \E k \in QueryKeys, v \in RequestQueryValues : SetQueryParam(k, v)
    \/ \E k \in QueryKeys, v \in RequestQueryValues : SetQueryParamsFromValues(k, v)
    \/ \E query \in QueryStrings : SetQueryString(query)
    \/ \E order \in AllOrders : BuildURL(order)

SpecQueryParams == InitURL /\ [][NextQueryParams]_vars

\* ---------------------------------------------------------------- Clone
\* The containers by reference. A map or a backing array lives at an address
\* of the heap, <<owner, field, key, n>>: the object it was made for, the
\* field, the key whose values the array holds ("" for the map or the slice of
\* the field itself), a number that tells apart what was made for the same
\* place. A slice is the address of its array and its length; its capacity
\* is the length of the array.
Nil == <<>>
NilSlice == [array |-> Nil, len |-> 0]

\* an address nothing lives at
Fresh(h, who, f, k) ==
    <<who, f, k,
      CHOOSE n \in 0..Cardinality(DOMAIN h) :
          /\ <<who, f, k, n>> \notin DOMAIN h
          /\ \A m \in 0..(n - 1) : <<who, f, k, m>> \in DOMAIN h>>

\* the elements of a slice
Elems(h, s) == IF s.len = 0 THEN <<>> ELSE SubSeq(h[s.array], 1, s.len)

\* the contents of the http.Header or url.Values at address m
ValuesView(h, m) == [k \in DOMAIN h[m] |-> Elems(h, h[m][k])]

\* what the getters and the pipeline read of an object's containers
ViewOf(h, o) ==
    [headers |-> ValuesView(h, o.headers),
     queryParams |-> ValuesView(h, o.queryParams),
     pathParams |-> h[o.pathParams],
     formData |-> ValuesView(h, o.formData),
     cookies |-> Elems(h, o.cookies),
     beforeRequest |-> Elems(h, o.beforeRequest),
     afterResponse |-> Elems(h, o.afterResponse)]

\* the addresses the objects reach; the garbage collector keeps these
Reach(os, h) ==
    LET maps == UNION {{os[n][f] : f \in ValuesFields} : n \in DOMAIN os}
        fields == UNION {{os[n].pathParams, os[n].cookies.array,
                          os[n].beforeRequest.array,
                          os[n].afterResponse.array} : n \in DOMAIN os}
        values == UNION {{h[m][k].array : k \in DOMAIN h[m]} : m \in maps}
    IN (maps \cup fields \cup values) \ {Nil}

Collect(os, h) == [a \in Reach(os, h) |-> h[a]]

\* the heap once key k of the map at m no longer holds its slice
DropKey(os, h, m, k) ==
    Collect(os, [h EXCEPT ![m] = [x \in DOMAIN @ \ {k} |-> @[x]]])

\* the heap once slice field f of object o no longer holds its slice
DropSlice(os, h, o, f) == Collect([os EXCEPT ![o][f] = NilSlice], h)

\* append(s, x): in place when the array has room, otherwise into a new
\* array, at address a, of twice the capacity
AppendTo(h, s, x, a) ==
    IF s.array # Nil /\ s.len < Len(h[s.array])
    THEN [heap |-> [h EXCEPT ![s.array] = [@ EXCEPT ![s.len + 1] = x]],
          slice |-> [s EXCEPT !.len = @ + 1]]
    ELSE LET cap == IF s.len = 0 THEN 1 ELSE 2 * s.len
             old == Elems(h, s)
             arr == [i \in 1..cap |->
                        IF i <= s.len THEN old[i]
                        ELSE IF i = s.len + 1 THEN x ELSE ""]
         IN [heap |-> (a :> arr) @@ h,
             slice |-> [array |-> a, len |-> s.len + 1]]

\* make(http.Header) filled from values: a new map whose keys hold arrays
\* of their own, append([]string(nil), v...)
MakeValues(h, who, f, values) ==
    LET m == Fresh(h, who, f, "")
        full == {k \in DOMAIN values : values[k] # <<>>}
        arrays == [a \in {Fresh(h, who, f, k) : k \in full} |-> values[a[3]]]
        cell == [k \in DOMAIN values |->
                    IF k \in full
                    THEN [array |-> Fresh(h, who, f, k), len |-> Len(values[k])]
                    ELSE NilSlice]
    IN [heap |-> (m :> cell) @@ arrays @@ h, addr |-> m]

\* the clone is handed the map of its source
ShareValues(h, m, f) == [heap |-> h, addr |-> m]

\* Clone: headers := make(http.Header); for k, v := range c.headers
\* { headers[k] = append([]string(nil), v...) }, and so for the query
\* parameters and the form data
CopyValues(h, m, f) == MakeValues(h, "copy", f, ValuesView(h, m))

\* make(map[string]string) filled from params
MakeParams(h, who, params) ==
    LET m == Fresh(h, who, "pathParams", "")
    IN [heap |-> (m :> params) @@ h, addr |-> m]

\* Clone: pathParams := make(map[string]string); for k, v := range
\* c.pathParams { pathParams[k] = v }
CopyParams(h, m) == MakeParams(h, "copy", h[m])

\* Clone: cookies := make([]*http.Cookie, len(c.cookies)); copy(cookies,
\* c.cookies), and append([]RequestMiddleware(nil), c.beforeRequest...): an
\* array of its own, as long as the slice
CopySlice(h, s, f) ==
    IF s.len = 0 THEN [heap |-> h, slice |-> NilSlice]
    ELSE LET a == Fresh(h, "copy", f, "")
         IN [heap |-> (a :> Elems(h, s)) @@ h,
             slice |-> [array |-> a, len |-> s.len]]

\* Client.Clone: the containers of the clone
ClientClone(h, c) ==
    LET c1 == CopyValues(h, c.headers, "headers")
        c2 == CopyValues(c1.heap, c.queryParams, "queryParams")
        c3 == CopyParams(c2.heap, c.pathParams)
        c4 == CopyValues(c3.heap, c.formData, "formData")
        c5 == CopySlice(c4.heap, c.cookies, "cookies")
        c6 == CopySlice(c5.heap, c.beforeRequest, "beforeRequest")
        c7 == CopySlice(c6.heap, c.afterResponse, "afterResponse")
    IN [heap |-> c7.heap,
        object |-> [kind |-> c.kind, headers |-> c1.addr,
                    queryParams |-> c2.addr, pathParams |-> c3.addr,
                    formData |-> c4.addr, cookies |-> c5.slice,
                    beforeRequest |-> c6.slice, afterResponse |-> c7.slice]]

\* Request.Clone: the containers of the clone; a Request has no hook chains
RequestClone(h, r) ==
    LET c1 == CopyValues(h, r.headers, "headers")
        c2 == CopyValues(c1.heap, r.queryParams, "queryParams")
        c3 == CopyParams(c2.heap, r.pathParams)
        c4 == CopyValues(c3.heap, r.formData, "formData")
        c5 == CopySlice(c4.heap, r.cookies, "cookies")
    IN [heap |-> c5.heap,
        object |-> [kind |-> r.kind, headers |-> c1.addr,
                    queryParams |-> c2.addr, pathParams |-> c3.addr,
                    formData |-> c4.addr, cookies |-> c5.slice,
                    beforeRequest |-> NilSlice, afterResponse |-> NilSlice]]

\* NewClient() or c.Http(): the object and the heap its containers live in
NewObject(kind) ==
    LET v == IF kind = "Client" THEN NewClient ELSE Http
        c1 == MakeValues(EmptyMap, "orig", "headers", v.headers)
        c2 == MakeValues(c1.heap, "orig", "queryParams", v.queryParams)
        c3 == MakeParams(c2.heap, "orig", v.pathParams)
        c4 == MakeValues(c3.heap, "orig", "formData", v.formData)
    IN [heap |-> c4.heap,
        object |-> [kind |-> kind, headers |-> c1.addr,
                    queryParams |-> c2.addr, pathParams |-> c3.addr,
                    formData |-> c4.addr, cookies |-> NilSlice,
                    beforeRequest |-> NilSlice, afterResponse |-> NilSlice]]

\* a client or a request, not cloned yet
InitClone ==
    /\ PipelineInit
    /\ DecodeIdle
    /\ BuildIdle
    /\ ConcIdle
    /\ \E kind \in Kinds :
           /\ heap = NewObject(kind).heap
           /\ objs = [n \in {"orig"} |-> NewObject(kind).object]
           /\ seen = [n \in {"orig"} |->
                         ViewOf(NewObject(kind).heap, NewObject(kind).object)]
    /\ calls = 0

\* the end of a setter called on object o: the caller of o sees what o holds
\* now; the caller of the other object has made no call
Touch(o, os, h) ==
    /\ calls < MaxCalls
    /\ objs' = os
    /\ heap' = Collect(os, h)
    /\ seen' = [n \in DOMAIN os |->
                   IF n = o THEN ViewOf(Collect(os, h), os[n]) ELSE seen[n]]
    /\ calls' = calls + 1
    /\ UNCHANGED <<pipelineVars, decodeVars, buildVars, concVars>>

\* SetCommonHeader, SetCommonQueryParam, SetCommonFormData of a Client and
\* SetHeader, SetQueryParam, SetFormData of a Request: field.Set(k, v)
SetValue(o, f, k, v) ==
    /\ o \in DOMAIN objs
    /\ LET m == objs[o][f]
           h0 == DropKey(objs, heap, m, k)
           a == Fresh(h0, o, f, k)
           h1 == (a :> <<v>>) @@ h0
       IN Touch(o, objs,
                [h1 EXCEPT ![m] = Assign(@, k, [array |-> a, len |-> 1])])

\* SetQueryParamsFromValues and SetFormDataFromValues of a Request:
\* field.Add(k, v)
AddValue(o, f, k, v) ==
    /\ o \in DOMAIN objs
    /\ objs[o].kind = "Request"
    /\ LET m == objs[o][f]
           old == IF k \in DOMAIN heap[m] THEN heap[m][k] ELSE NilSlice
           a == Fresh(DropKey(objs, heap, m, k), o, f, k)
           r == AppendTo(heap, old, v, a)
       IN Touch(o, objs, [r.heap EXCEPT ![m] = Assign(@, k, r.slice)])

\* SetCommonPathParam of a Client and SetPathParam of a Request
SetParam(o, k, v) ==
    /\ o \in DOMAIN objs
    /\ Touch(o, objs, [heap EXCEPT ![objs[o].pathParams] = Assign(@, k, v)])

\* SetCommonCookies, OnBeforeRequest, OnAfterResponse of a Client and
\* SetCookie of a Request: field = append(field, x)
AppendItem(o, f, x) ==
    /\ o \in DOMAIN objs
    /\ f \in SliceFields(objs[o].kind)
    /\ LET a == Fresh(DropSlice(objs, heap, o, f), o, f, "")
           r == AppendTo(heap, objs[o][f], x, a)
       IN Touch(o, [objs EXCEPT ![o][f] = r.slice], r.heap)

\* Client.Clone, Request.Clone
Clone ==
    /\ "copy" \notin DOMAIN objs
    /\ LET src == objs["orig"]
           r == IF src.kind = "Client" THEN ClientClone(heap, src)
                ELSE RequestClone(heap, src)
       IN /\ objs' = ("copy" :> r.object) @@ objs
          /\ heap' = r.heap
          /\ seen' = ("copy" :> ViewOf(r.heap, r.object)) @@ seen
    /\ UNCHANGED <<calls, pipelineVars, decodeVars, buildVars, concVars>>

NextClone ==
    \/ \E o \in {"orig", "copy"}, f \in ValuesFields, k \in CloneKeys,
          v \in CloneValues : SetValue(o, f, k, v)
    \/ \E o \in {"orig", "copy"}, f \in {"queryParams", "formData"},
          k \in CloneKeys, v \in CloneValues : AddValue(o, f, k, v)
    \/ \E o \in {"orig", "copy"}, k \in CloneKeys, v \in CloneValues :
           SetParam(o, k, v)
    \/ \E o \in {"orig", "copy"},
          f \in {"cookies", "beforeRequest", "afterResponse"},
          x \in CloneItems : AppendItem(o, f, x)
    \/ Clone

SpecClone == InitClone /\ [][NextClone]_vars

\* ------------------------------------------- Execute calls on one Client
\* Every call is handed a response whose body decodes to the call's own
\* number in every field of the target, so a target tells who wrote it.
Payload(g) == [f \in {"Code", "Message"} |-> g]

\* an error target nothing was decoded into, and the order in which
\* jsonUnmarshal stores the fields of one
Zero == [f \in {"Code", "Message"} |-> 0]
Fields == <<"Code", "Message">>

\* a goroutine that has not called yet
NotStarted ==
    [pc |-> "idle", errorResult |-> FALSE, StatusCode |-> 0,
     state |-> "Success", target |-> "none", next |-> 1, own |-> Zero,
     result |-> Zero]

\* a Client configured before its use, with or without SetCommonErrorResult,
\* and the goroutines that will call on it
InitConc ==
    /\ PipelineInit
    /\ DecodeIdle
    /\ BuildIdle
    /\ CloneIdle
    /\ shared \in {[set |-> s, value |-> Zero] : s \in BOOLEAN}
    /\ running = [g \in Goroutines |-> NotStarted]

concFrame == <<pipelineVars, decodeVars, buildVars, cloneVars>>

\* go func() { client.Http()...Get(url) }: the goroutine makes a Request of
\* its own, with or without SetErrorResult, and enters execute
Go(g, er) ==
    /\ running[g].pc = "idle"
    /\ running' = [running EXCEPT ![g].pc = "sending", ![g].errorResult = er]
    /\ UNCHANGED <<shared, concFrame>>

\* execute up to the choice of the decode target: the reply is read into the
\* call's own Response, classified, and the target is chosen
Receive(g, status) ==
    /\ running[g].pc = "sending"
    /\ LET st == defaultResultChecker([StatusCode |-> status])
           t == Target(TRUE, st, FALSE, running[g].errorResult, shared.set)
       IN running' = [running EXCEPT
              ![g].StatusCode = status,
              ![g].state = st,
              ![g].target = t,
              ![g].pc = IF t = "none" THEN "returned" ELSE "decoding"]
    /\ UNCHANGED <<shared, concFrame>>

\* c.unmarshalResponse(resp, target): jsonUnmarshal stores the next field of
\* the body into the target, the Request's own or the Client's common one;
\* after the last field execute returns
StoreField(g) ==
    /\ running[g].pc = "decoding"
    /\ LET f == Fields[running[g].next]
           last == running[g].next = Len(Fields)
           own == running[g].target = "error"
       IN /\ running' = [running EXCEPT
                 ![g].own = IF own THEN [@ EXCEPT ![f] = Payload(g)[f]] ELSE @,
                 ![g].next = @ + 1,
                 ![g].pc = IF last THEN "returned" ELSE "decoding"]
          /\ shared' = IF own THEN shared
                       ELSE [shared EXCEPT !.value[f] = Payload(g)[f]]
    /\ UNCHANGED concFrame

\* the caller of a returned call reads the error value decoded for it
ReadResult(g) ==
    /\ running[g].pc = "returned"
    /\ running' = [running EXCEPT
           ![g].pc = "read",
           ![g].result = IF running[g].target = "common" THEN shared.value
                         ELSE IF running[g].target = "error" THEN running[g].own
                         ELSE Zero]
    /\ UNCHANGED <<shared, concFrame>>

NextConc ==
    \/ \E g \in Goroutines, er \in BOOLEAN : Go(g, er)
    \/ \E g \in Goroutines, status \in ConcStatuses : Receive(g, status)
    \/ \E g \in Goroutines : StoreField(g)
    \/ \E g \in Goroutines : ReadResult(g)

SpecConc == InitConc /\ [][NextConc]_vars

\* ------------------------------------------------------- properties
\* the attempt the call ended in (attempts are numbered from 1)
LastAttempt == attempt + 1

\* C1: with a retry count N >= 0, one Execute call dispatches at most N+1
\* requests to the transport, whatever the predicate and the outcomes are.
C1_AtMostNPlusOneDispatches ==
    retryCount >= 0 => dispatched <= retryCount + 1

\* a call with one retry in its budget that used it: two requests dispatched
C1_Witness ==
    /\ pc = "done"
    /\ retryCount = 1
    /\ dispatched = 2

\* C2: with retry count N and a predicate that returns true whenever it is
\* consulted, a call whose attempts all reach the transport makes exactly N+1
\* attempts and sleeps the retry interval exactly N times: exactly once in every
\* attempt that is followed by another one, and not after the last.
C2_ExactlyNSleeps ==
    (retryCondition = "custom" /\ allTrue /\ retryCount >= 0) =>
        /\ (pc = "loop" /\ attempt >= 1 => cur.slept = 1)
        /\ (pc = "done" /\ ~cur.prepFailed /\ cur.beforeFailed = 0
              => dispatched = retryCount + 1 /\ cur.slept = 0)

\* C3: a before-request hook that returns an error ends the call at once with
\* that hook's error and no Response: no later before-hook ran, the transport
\* was not called in that attempt, the retry predicate was not consulted, the
\* interval was not slept and no further attempt follows.
C3_BeforeHookErrorAborts ==
    cur.beforeFailed # 0 =>
        /\ pc = "done"
        /\ ret = Return(NilResp, Error("before", cur.beforeFailed))
        /\ cur.beforeRan = cur.beforeFailed
        /\ ~cur.sent
        /\ dispatched = attempt
        /\ cur.consulted = 0
        /\ cur.slept = 0

\* the first of two before-hooks fails in the first attempt of a call that
\* has a retry in its budget
C3_Witness ==
    /\ cur.beforeFailed = 1
    /\ beforeRequest = 2
    /\ retryCount = 1
    /\ attempt = 0
    /\ pc = "done"

\* C4: in every attempt the first after-response hook that returns an error
\* ends the hook chain of that attempt (no hook registered after it runs) and
\* its error is the attempt's terminal error when the attempt reaches the
\* retry decision.
C4_FirstAfterHookErrorEndsChain ==
    cur.afterFailed # 0 =>
        /\ cur.afterRan = cur.afterFailed
        /\ (pc \in {"after", "loop"}
              => resp.Err = Error("after", cur.afterFailed))

\* C5: a failed decode into the success target of the final attempt makes
\* Execute return a non-nil error; a failed decode into an error target is
\* swallowed and Execute returns a nil error.
C5_DecodeFailureAsymmetry ==
    pc = "done" =>
        /\ (cur.decodeFailed = "success" => ret.err # NoErr)
        /\ (cur.decodeFailed = "error" => ret.err = NoErr)

\* C6: the outcome of a call is that of its last attempt only: the returned
\* Response is the one the last attempt built, and no decode target holds
\* data decoded in an earlier, retried attempt.
C6_OnlyLastAttemptObservable ==
    pc = "done" =>
        /\ (~ret.resp.nil => ret.resp.attempt = LastAttempt)
        /\ successData \subseteq {LastAttempt}
        /\ errorData \subseteq {LastAttempt}
        /\ commonData \subseteq {LastAttempt}

\* the terminal error of the call as the last attempt produced it
TerminalError == IF unhooked = NoReturn THEN ret.err ELSE unhooked.err

\* C7: a registered error hook is invoked exactly once, with the terminal
\* error, by every call that ends with a terminal error, never before the
\* last attempt is over and never by a call that ends without error.
C7_ErrorHookOncePerFailedCall ==
    onError # "nil" =>
        /\ (pc # "done" => hookCalls = 0)
        /\ (pc = "done" /\ TerminalError # NoErr
              => hookCalls = 1 /\ hookErr = TerminalError)
        /\ (pc = "done" /\ TerminalError = NoErr => hookCalls = 0)

\* C8: the error hook cannot alter the outcome: Execute returns the pair it
\* would return with no hook registered.
C8_ErrorHookCannotAlterOutcome ==
    (pc = "done" /\ hookCalls > 0) => ret = unhooked

\* C9: Execute never panics, whatever integer SetRetryCount was given.
C9_NeverPanics == pc # "panicked"

\* a failure of the last attempt: URL build or encode, before-hook, transport,
\* body read, after-hook or success decode
LastAttemptFailed ==
    \/ cur.prepFailed
    \/ cur.beforeFailed # 0
    \/ cur.failure # "none"
    \/ cur.afterFailed # 0
    \/ cur.decodeFailed = "success"

\* C10: Execute returns a non-nil error exactly when the last attempt had a
\* failure (an HTTP error status alone never does), and a returned Response
\* carries the returned error as its terminal error.
C10_ErrorIffLastAttemptFailed ==
    pc = "done" =>
        /\ (ret.err # NoErr <=> LastAttemptFailed)
        /\ (~ret.resp.nil => ret.err = ret.resp.Err)

\* the default retry rule, as the claim states it
RetryWorthy(r) == r.Err # NoErr \/ r.StatusCode >= 500 \/ r.StatusCode = 429

\* C11: with no custom retry condition an attempt that has budget left is
\* retried exactly when its terminal error is non-nil or its status is >= 500
\* or 429; with a custom retry condition the attempt is retried exactly when
\* the predicate's last answer for it was true, whatever the error and the
\* status are.
C11_DefaultRetryRule ==
    /\ (retryCondition = "nil" /\ pc = "loop" /\ attempt >= 1
          => RetryWorthy(resp))
    /\ (retryCondition = "nil" /\ pc = "done" /\ cur.sent /\ attempt < retryCount
          => ~RetryWorthy(unhooked.resp))
    /\ (retryCondition = "custom" /\ pc = "loop" /\ attempt >= 1
          => cur.answer = "true")
    /\ (retryCondition = "custom" /\ pc = "done" /\ cur.sent /\ attempt < retryCount
          => cur.answer = "false")

\* a 429 answer without error retried under the default rule
C11_Witness ==
    /\ retryCondition = "nil"
    /\ pc = "loop"
    /\ attempt = 1
    /\ resp.Err = NoErr
    /\ resp.StatusCode = 429

\* C12: the default classifier maps a completed attempt with status 200..299
\* to Success, with status >= 400 to Error and with any other status to
\* Unknown; IsSuccess and IsError report that class and are never both true.
C12_DefaultClassifier ==
    (probe.done /\ ~probe.failed) =>
        /\ (probe.StatusCode \in 200..299 => probe.state = "Success")
        /\ (probe.StatusCode >= 400 => probe.state = "Error")
        /\ (probe.StatusCode \in (100..199) \cup (300..399)
              => probe.state = "Unknown")
        /\ (IsSuccess(probe) <=> probe.StatusCode \in 200..299)
        /\ (IsError(probe) <=> probe.StatusCode >= 400)
        /\ ~(IsSuccess(probe) /\ IsError(probe))

\* a 400 answer classified
C12_Witness ==
    /\ probe.done
    /\ ~probe.failed
    /\ probe.StatusCode = 400
    /\ IsError(probe)

\* the codec the claim names for a Content-Type value
ClaimedCodec(contentType) ==
    IF Contains(contentType, "application/json") THEN "json"
    ELSE IF Contains(contentType, "application/xml") THEN "xml"
    ELSE IF Contains(contentType, "text/xml") THEN "xml"
    ELSE "json"

\* C13: in an attempt with no terminal error the body goes to the success
\* target exactly when the state is Success and that target is set, to the
\* request's error target exactly when the state is Error and it is set, to
\* the client's common error target exactly when the state is Error, the
\* request has no error target and the common one is set, and nowhere for
\* Unknown; a non-empty body handed to a target is decoded with JSON when the
\* Content-Type contains application/json, else with XML when it contains
\* application/xml or text/xml, else with JSON.
C13_DecodeTargetAndCodec ==
    (probe.done /\ ~probe.failed) =>
        /\ (probe.target = "success"
              <=> probe.state = "Success" /\ probe.successResult)
        /\ (probe.target = "error"
              <=> probe.state = "Error" /\ probe.errorResult)
        /\ (probe.target = "common"
              <=> probe.state = "Error" /\ ~probe.errorResult
                  /\ probe.commonErrorResult)
        /\ (probe.state = "Unknown" => probe.target = "none" /\ probe.codec = "none")
        /\ (probe.target # "none" /\ probe.body # "empty"
              => probe.codec = ClaimedCodec(probe.contentType))
        /\ (probe.target = "none" => probe.codec = "none")

\* a 404 answer of type text/xml decoded with XML into the client's common
\* error target
C13_Witness ==
    /\ probe.done
    /\ ~probe.failed
    /\ probe.StatusCode = 404
    /\ probe.target = "common"
    /\ probe.contentType = <<"text/xml", "; charset=utf-8">>
    /\ probe.codec = "xml"

\* the header values the server reads off the wire request
WireUserAgent == Get(wire.Header, "User-Agent")
WireContentType == Get(wire.Header, "Content-Type")

\* whether the caller set the header at client or at request level, under
\* any spelling of its key
Explicit(k) ==
    \E x \in DOMAIN client.headers \cup DOMAIN request.headers :
        CanonicalMIMEHeaderKey(x) = k

\* C14: when neither level sets a User-Agent header, the User-Agent on the
\* wire is the request-level user agent if one was set, else the client-level
\* one if non-empty, else "Go-http-client/1.1"; a client built from a Config
\* with an empty UserAgent, and given no other since, sends the default.
C14_UserAgentPrecedence ==
    (wire.done /\ ~Explicit("User-Agent")) =>
        /\ wire.Header["User-Agent"] =
              << IF request.userAgent # "" THEN request.userAgent
                 ELSE IF client.userAgent # "" THEN client.userAgent
                 ELSE "Go-http-client/1.1" >>
        /\ (config.UserAgent = "" /\ request.userAgent = ""
               /\ client.userAgent # "ClientAgent/1.0"
              => WireUserAgent = "Go-http-client/1.1")

\* the three levels: a request-level agent over a client-level one, the
\* client-level one alone, and the default for an empty Config
C14_Witness ==
    /\ wire.done
    /\ ~Explicit("User-Agent")
    /\ config.UserAgent = "ConfigAgent/1.0"
    /\ client.userAgent = "ConfigAgent/1.0"
    /\ request.userAgent = "RequestAgent/1.0"
    /\ WireUserAgent = "RequestAgent/1.0"

\* the Content-Type values the caller set, the client's before the
\* request's, for every order the request's keys may be visited in
ExplicitContentType ==
    {MergedHeaders(client, request, order)["Content-Type"] :
        order \in Orders(DOMAIN request.headers)}

\* C15: for every body kind, a Content-Type header the caller set at client
\* or request level is what the wire request carries: the body encoder's
\* content type never replaces it.
C15_ExplicitContentTypeKept ==
    (wire.done /\ Explicit("Content-Type")) =>
        wire.Header["Content-Type"] \in ExplicitContentType

\* C16: when the client carries a Content-Type header and the request sets
\* one with SetHeader, the first Content-Type value of the wire request is
\* the request's.
C16_RequestContentTypeWins ==
    (wire.done /\ "Content-Type" \in DOMAIN client.headers
               /\ "Content-Type" \in DOMAIN request.headers) =>
        WireContentType = Get(request.headers, "Content-Type")

\* whether sub occurs in str
HasSub(str, sub) ==
    \E i \in 1..(Len(str) - Len(sub) + 1) : SubSeq(str, i, i + Len(sub) - 1) = sub

\* the built URL as a string
BuiltURL ==
    built.head \o (IF built.RawQuery = <<>> THEN <<>> ELSE <<"?">> \o built.RawQuery)

\* the client without the path parameters the request supplies as well
ShadowedClient ==
    [client EXCEPT !.pathParams =
        [k \in DOMAIN client.pathParams \ DOMAIN request.pathParams |->
            client.pathParams[k]]]

\* whether the value substituted for key k holds the placeholder of key j
Refers(k, j) ==
    HasSub(AllPathParams(client, request.pathParams)[k], Placeholder(j))

\* the placeholder text inside the values refers to keys with plain values
\* only: no value leads back to a placeholder, directly or through another
NoCircularValues ==
    \A k, j \in Supplied : Refers(k, j) => \A i \in Supplied : ~Refers(j, i)

\* C17: the built URL holds no {key} placeholder of a key supplied at either
\* level, a key supplied at both levels is substituted by the request's value
\* (the client's entry for it has no effect), and the URL is the same in
\* whatever order the keys are processed; for every value, including values
\* that hold {otherKey} text (stated for the values that do not refer back to
\* themselves, for which such a URL exists).
C17_PathParamsResolved ==
    (built.done /\ NoCircularValues) =>
        /\ \A k \in Supplied : ~HasSub(BuiltURL, Placeholder(k))
        /\ buildURL(ShadowedClient, request.url, request.pathParams,
                    request.queryParams, built.order).head = built.head
        /\ \A o \in Orders(Supplied) :
               buildURL(client, request.url, request.pathParams,
                        request.queryParams, o).head = built.head

\* the values a url.Values holds for a key
ValuesFor(values, k) == IF k \in DOMAIN values THEN values[k] ELSE <<>>

\* the query string of the request URL itself
OwnQuery == Query(ParseURL(request.url).RawQuery)

\* C18: for every key the values in the built URL's query are those of the
\* URL's own query string, then the client's, then the request's, each in its
\* order, none dropped and none deduplicated.
C18_QueryMergeAdditive ==
    built.done =>
        LET result == Query(built.RawQuery)
        IN \A k \in DOMAIN result \cup DOMAIN OwnQuery
                    \cup DOMAIN client.queryParams \cup DOMAIN request.queryParams :
               ValuesFor(result, k) =
                   ValuesFor(OwnQuery, k) \o ValuesFor(client.queryParams, k)
                   \o ValuesFor(request.queryParams, k)

\* client {a:1} and request {a:2} on a URL without query give a=1&a=2
C18_Witness ==
    /\ built.done
    /\ request.url = <<"/", "{", "a", "}">>
    /\ client.queryParams = [k \in {<<"a">>} |-> << <<"1">> >>]
    /\ request.queryParams = [k \in {<<"a">>} |-> << <<"2">> >>]
    /\ built.RawQuery = <<"a", "=", "1", "&", "a", "=", "2">>

\* C19: Clone shares no mutable container with its source. After
\* Client.Clone or Request.Clone, whatever setters are called on the clone,
\* the original's headers, query parameters, path parameters, form data,
\* cookies and hook chains are what its own caller last saw, and whatever
\* setters are called on the original, the clone's are.
C19_CloneSharesNothing ==
    "copy" \in DOMAIN objs =>
        \A n \in DOMAIN objs : ViewOf(heap, objs[n]) = seen[n]

\* after the Clone a header was set on the clone only and a cookie was added
\* to the original only
C19_Witness ==
    /\ "copy" \in DOMAIN objs
    /\ "X" \in DOMAIN seen["copy"].headers
    /\ "X" \notin DOMAIN seen["orig"].headers
    /\ Len(seen["orig"].cookies) = 1
    /\ seen["copy"].cookies = <<>>

\* the call of goroutine g is decoding into the Client's common error target
StoresCommon(g) == running[g].pc = "decoding" /\ running[g].target = "common"

\* what the caller of g reads when the call runs alone
Alone(g) == IF running[g].target = "none" THEN Zero ELSE Payload(g)

\* C20: a Client configured before its use is safe to share. When Execute
\* calls run concurrently on it, each on a Request of its own and with no
\* Client setter called meanwhile, no two calls are storing into state
\* reachable from the Client at once, and every caller reads the result its
\* call produces when run alone.
C20_SharedClientSafe ==
    /\ \A g, h \in Goroutines : g # h => ~(StoresCommon(g) /\ StoresCommon(h))
    /\ \A g \in Goroutines : running[g].pc = "read" => running[g].result = Alone(g)

\* C21: every attempt classifies its Response before its after-response
\* hooks run: the Response an after-hook is handed carries the state the
\* classifier gives it, and a returned Response whose after-hook failed
\* carries the classifier's result.
C21_ClassifiedBeforeAfterHooks ==
    /\ (pc = "after" /\ idx <= afterResponse) =>
           resp.state = defaultResultChecker(resp)
    /\ (pc = "done" /\ cur.afterFailed > 0 /\ ~ret.resp.nil) =>
           ret.resp.state = defaultResultChecker(ret.resp)

\* C26: when URL construction or body encoding fails while an attempt is
\* prepared, Execute returns that error with no Response; in that attempt no
\* before-hook ran, the transport was not called, the retry predicate was not
\* consulted and nothing was slept, and the call is over.
C26_PrepareFailureEndsCall ==
    cur.prepFailed =>
        /\ pc = "done"
        /\ ret = Return(NilResp, Error("prepare", 0))
        /\ cur.beforeRan = 0
        /\ ~cur.sent
        /\ cur.consulted = 0
        /\ cur.slept = 0

\* the second attempt of a call with before-hooks failed in prepareRequest
C26_Witness ==
    /\ pc = "done"
    /\ cur.prepFailed
    /\ attempt = 1
    /\ dispatched = 1
    /\ beforeRequest >= 1

\* C27: a Response that Execute returns together with an error of the
\* transport, of the body read or of an after-hook is not reported as
\* successful: IsSuccess() is false and its state is not Success.
C27_FailedResponseNotSuccess ==
    (pc = "done" /\ ~ret.resp.nil
        /\ ret.err.kind \in {"transport", "read", "after"}) =>
        /\ ~IsSuccess(ret.resp)
        /\ ret.resp.state # "Success"

\* the rule of the precedence that follows the rules of a body: the form data
\* when a level holds any, else no body
FormOrNone(c, req) ==
    IF DOMAIN req.formData # {} \/ DOMAIN c.formData # {} THEN "form" ELSE "none"

\* the rules the body of request req on client c may be encoded by: the tag
\* of a body first, then the raw payload (bytes, string, stream), the form
\* data only without a body. An untagged body of another type is either sent
\* as a body, by one of the rules of a body, or not counted as a body, and
\* then the next rule of the precedence applies.
ClaimedRules(c, req) ==
    IF req.body # "nil" /\ req.bodyType = "json" THEN {"json"}
    ELSE IF req.body # "nil" /\ req.bodyType = "xml" THEN {"xml"}
    ELSE IF req.body = "raw" THEN {"raw"}
    ELSE IF req.body # "nil" THEN {"json", "xml", "raw", FormOrNone(c, req)}
    ELSE {FormOrNone(c, req)}

\* the values of form key k at one level, in their order
FormValues(data, k) == IF k \in DOMAIN data THEN data[k] ELSE <<>>

\* C23: the body is encoded by one rule, chosen in the precedence JSON tag,
\* XML tag, raw payload (bytes, string, stream), form data, no body. The form
\* data is encoded as the body only when no body is set, every key carrying
\* the client's values followed by the request's; when a body and form data
\* are both set the body is sent and the form data is not.
C23_BodyRulePrecedence ==
    wire.done =>
        /\ wire.body.rule \in ClaimedRules(client, request)
        /\ (wire.body.rule = "form" =>
               LET sent == Query(wire.body.bytes)
               IN /\ DOMAIN sent = DOMAIN client.formData \cup DOMAIN request.formData
                  /\ \A k \in DOMAIN sent :
                         sent[k] = FormValues(client.formData, k)
                                   \o FormValues(request.formData, k))

\* whether the caller set a Content-Type header: with SetHeader on the
\* request, or with SetCommonHeader on the client (the values it is handed
\* differ from the one a Config carries)
CallerSetContentType ==
    \/ \E x \in DOMAIN request.headers :
          CanonicalMIMEHeaderKey(x) = "Content-Type"
    \/ /\ "Content-Type" \in DOMAIN client.headers
       /\ \/ "Content-Type" \notin DOMAIN config.Headers
          \/ client.headers["Content-Type"] # <<config.Headers["Content-Type"]>>

\* the content type that goes with a body rule
HintOf(rule) ==
    IF rule = "json" THEN "application/json"
    ELSE IF rule = "xml" THEN "application/xml"
    ELSE IF rule = "form" THEN "application/x-www-form-urlencoded"
    ELSE ""

\* C24: when the caller sets no Content-Type header, the Content-Type of the
\* wire request is the one that goes with the body sent: application/json
\* for a JSON body, application/xml for an XML body,
\* application/x-www-form-urlencoded for form data; also for the client made
\* by NewClient().
C24_ContentTypeFollowsBody ==
    (wire.done /\ ~CallerSetContentType
        /\ wire.body.rule \in {"json", "xml", "form"}) =>
        WireContentType = HintOf(wire.body.rule)

\* C28: the body is encoded by the body setter called last: after SetBody,
\* SetBodyBytes, SetBodyString or SetBodyReader raw data is passed through
\* with no content type of its own, after SetBodyJSON the body is marshalled
\* as JSON, after SetBodyXML as XML.
C28_LastBodySetterDecides ==
    (wire.done /\ request.body # "nil") =>
        /\ (request.bodySetter = "json" => wire.body.rule = "json")
        /\ (request.bodySetter = "xml" => wire.body.rule = "xml")
        /\ (request.bodySetter = "plain" /\ request.body = "raw" =>
               /\ wire.body.rule = "raw"
               /\ BodyContentType(client, request) = "")

\* C29: the clone of a Request, sent through the same client, gives the wire
\* request the original gives: the same headers, User-Agent among them, and
\* the same body.
C29_CloneSendsTheSame ==
    wire.clone.done =>
        /\ \E order \in Orders(DOMAIN request.headers) :
              wire.clone.Header = prepareRequest(client, request, order).Header
        /\ wire.clone.body = wire.body

\* the last character of a string
EndsWith(str, ch) == str # <<>> /\ str[Len(str)] = ch

\* C25: the base URL a client stores, from SetBaseURL or from the Config of
\* NewClientWithConfig, has no trailing slash; a request URL that does not
\* start with "http" is joined to a base URL as the base URL, one "/" and
\* the request URL without its leading slashes, and a request URL that
\* starts with "http" is used as it is.
C25_BaseURLJoin ==
    /\ ~EndsWith(client.baseURL, "/")
    /\ built.done =>
           LET rel == ~HasPrefix(request.url, <<"h", "t", "t", "p">>)
               base == TrimRight(client.baseURL, "/")
           IN built.head =
                 ParseURL(IF rel /\ base # <<>>
                          THEN base \o <<"/">> \o TrimLeft(request.url, "/")
                          ELSE request.url).head

\* C30: the timeout a client records is the timeout its http.Client
\* enforces, after NewClientWithConfig with any Config, a zero Timeout
\* included, and after any SetTimeout and Clone.
C30_RecordedTimeoutEnforced ==
    client.timeout = client.httpClientTimeout

\* C22: a change a before-request hook makes to the Request it is handed is
\* carried by the wire request dispatched in that same attempt, the first
\* attempt included: the request dispatched last is the one prepareRequest
\* gives for the Request as the hooks left it.
C22_HookChangeReachesWire ==
    (cur.sent /\ cur.afterRan = 0) =>
        \E order \in Orders(DOMAIN request.headers) :
            wire.Header = prepareRequest(client, request, order).Header

====
